---------------------------- MODULE Spec2Model ----------------------------
(***************************************************************************)
(* The PDF viewer (frontend/app/components/PdfViewer.tsx) and the host     *)
(* page that mounts it (frontend/app/page.tsx), as a state machine.        *)
(*                                                                         *)
(* A nullable value of the source (null | v) is the empty sequence or the  *)
(* one-element sequence <<v>>.                                             *)
(*                                                                         *)
(* Two specifications share the viewer's actions:                          *)
(*   Spec      the viewer under any host that honours its props: the host  *)
(*             mounts it, swaps the file prop, passes any currentPage,     *)
(*             mirrors onPageChange, unmounts it;                          *)
(*   HostSpec  the viewer under the Home page of page.tsx.                 *)
(* react-pdf's Document (the decode engine) is not part of the repository: *)
(* it is the environment. It starts a load whenever it is rendered with a  *)
(* new file, and may deliver progress, success and error callbacks for any *)
(* load it was given and has not ended, also a superseded one.             *)
(***************************************************************************)
EXTENDS Integers, Sequences, FiniteSets, TLC

\* ------------------------------------------------------------- bounds
\* The files a host can pass.
NumFiles == 2
\* Under Spec, the object urls one run creates (mounts and file swaps).
MaxUrls == 2
\* The largest page count the engine reports.
MaxPages == 3
\* The largest loaded / total of a progress report.
MaxAmount == 1
\* Under HostSpec, the uploads of one run; each mounts at most one viewer.
MaxUploads == 3
\* Under PureSpec, the largest loaded / total of a progress report and the most
\* words of a failure message.
MaxPureAmount == 2
MaxWords == 2
\* Under GeomSpec, the most annotations of an extraction.
MaxElements == 2

Null == <<>>
Some(v) == <<v>>
Files == 1..NumFiles
Urls == 1..(IF MaxUrls >= MaxUploads THEN MaxUrls ELSE MaxUploads)
PageCounts == 1..MaxPages
\* What a host may pass as currentPage: any integer, here one below and one
\* above every page count.
Targets == 0..(MaxPages + 1)
\* error.message of a decode failure, as its sequence of words.
Messages == {<<"Setting", "up", "fake", "worker", "failed">>,
             <<"Invalid", "PDF", "structure">>,
             <<"Unexpected", "server", "response">>}
\* The argument of onLoadProgress: absent, or { loaded?, total? }.
Amounts == {Null} \cup {Some(a) : a \in 0..MaxAmount}
Reports == {Null} \cup {Some([loaded |-> l, total |-> t]) : l \in Amounts, t \in Amounts}

VARIABLES
  \* Home (page.tsx)
  file,          \* useState<File | null>: also the viewer's file prop
  results,       \* useState<ExtractionResult | null>: the file whose request returned them
  isLoading,
  homeError,
  currentPage,   \* useState(1): also the viewer's currentPage prop
  requests,      \* extraction requests in flight: [id, f]
  nextReq,
  \* PdfViewer
  mounted,
  numPages,
  loadProgress,
  error,
  fileUrl,
  pageWidth,     \* useState<number>(0)
  \* useEffect([file])
  effDep,        \* the file the effect last ran for; <<0>> before its first run
  effUrl,        \* the url its cleanup closure will revoke
  phase,         \* "idle" | "setup" (cleanup done, body not yet run)
  pendingUrl,    \* setFileUrl(url) queued by the effect, applied by the next render
  \* URL registry
  nextUrl,       \* urls 1..nextUrl-1 were created
  revokeCount,   \* per url, the number of URL.revokeObjectURL calls
  \* decode engine
  loading,       \* loads given by the mounted viewer with no terminal event yet
  given,         \* every url the mounted viewer rendered Document with
  orphaned,      \* loads of a viewer since unmounted with no terminal event yet
  \* the last step
  ev,            \* [op, url, arg]
  called,        \* the argument of the onPageChange call the last step made, or Null
  \* the viewer's other inputs
  elements,      \* the elements prop: a sequence of [type, bbox, page]
  containerWidth,\* el.offsetWidth of the container div, as the layout has it
  \* a handler's pure part applied on its own (PureSpec)
  input,
  output

homeVars == <<file, results, isLoading, homeError, requests, nextReq>>
stateVars == <<numPages, loadProgress, error, fileUrl>>
effVars == <<effDep, effUrl, phase, pendingUrl>>
urlVars == <<nextUrl, revokeCount>>
engineVars == <<loading, given, orphaned>>
vars == <<file, results, isLoading, homeError, currentPage, requests, nextReq,
          mounted, numPages, loadProgress, error, fileUrl,
          effDep, effUrl, phase, pendingUrl, nextUrl, revokeCount,
          loading, given, orphaned, ev, called,
          pageWidth, elements, containerWidth, input, output>>
\* What no action of the viewer or of Home writes.
fixedVars == <<elements, containerWidth, input, output>>

Event(op, u, a) == [op |-> op, url |-> u, arg |-> a]

\* ------------------------------------------------------------ helpers
Max(a, b) == IF a >= b THEN a ELSE b
Min(a, b) == IF a <= b THEN a ELSE b
\* Math.round(a / b * 100) for integers a and b # 0: floor(100a/b + 1/2).
RoundPct(a, b) ==
  IF b > 0 THEN (200 * a + b) \div (2 * b)
  ELSE (-(200 * a) - b) \div (-(2 * b))
Includes(m, w) == \E i \in 1..Len(m) : m[i] = w

\* The url Document is rendered with, or Null when Document is not rendered:
\* the "Preparing PDF..." return and the error branch render no Document.
DocFile(isMounted, url, err) ==
  IF isMounted /\ url # Null /\ err = Null THEN url ELSE Null

\* The engine's loads after a render that changes Document's file from
\* before to after: a Document rendered with a new file starts loading it.
StartLoad(before, after, l) ==
  IF after # Null /\ after # before THEN l \cup {after[1]} ELSE l

\* Document renders its children (the container div, Page, the overlays) once
\* the load of its file has succeeded.
ChildrenRendered ==
  /\ DocFile(mounted, fileUrl, error) # Null
  /\ fileUrl[1] \in given /\ fileUrl[1] \notin loading

\* The step renders the viewer anew: a prop or a state value has changed.
ViewerRenders ==
  <<file, currentPage, elements, numPages, loadProgress, error, fileUrl>>'
    # <<file, currentPage, elements, numPages, loadProgress, error, fileUrl>>

\* ref={(el) => { if (el) handleResize(el.offsetWidth); }}: every render that
\* holds the container div measures it, and setPageWidth renders once more.
Measured ==
  pageWidth' = IF ViewerRenders /\ ChildrenRendered' THEN containerWidth ELSE pageWidth

\* No effect is waiting and no state update is queued.
Settled == phase = "idle" /\ pendingUrl = Null /\ (mounted => effDep = file)

\* The live object urls: created and not revoked.
Live == {u \in 1..(nextUrl - 1) : revokeCount[u] = 0}

\* ----------------------------------------------------------------- Init
InitCore ==
  /\ file = Null /\ results = Null /\ isLoading = FALSE /\ homeError = Null
  /\ currentPage = 1 /\ requests = {} /\ nextReq = 1
  /\ mounted = FALSE
  /\ numPages = Null /\ loadProgress = Null /\ error = Null /\ fileUrl = Null
  /\ effDep = Some(0) /\ effUrl = Null /\ phase = "idle" /\ pendingUrl = Null
  /\ nextUrl = 1 /\ revokeCount = [u \in Urls |-> 0]
  /\ loading = {} /\ given = {} /\ orphaned = {}
  /\ ev = Event("init", 0, 0) /\ called = Null
  /\ pageWidth = 0

\* One host's props: the annotations of a two-page extraction, in a container
\* 800 pixels wide.
SampleElements ==
  <<[type |-> "title", bbox |-> <<100, 100, 900, 200>>, page |-> 1],
    [type |-> "table", bbox |-> <<0, 0, 1000, 1000>>, page |-> 2]>>

Init ==
  /\ InitCore
  /\ elements = SampleElements /\ containerWidth = 800
  /\ input = Null /\ output = Null

\* ------------------------------------------------- mounting, unmounting
\* A new PdfViewer instance: the useState initial values, its effect not yet run.
ViewerMounts ==
  /\ mounted' = TRUE
  /\ numPages' = Null /\ loadProgress' = Null /\ error' = Null /\ fileUrl' = Null
  /\ pageWidth' = 0
  /\ effDep' = Some(0) /\ effUrl' = Null /\ phase' = "idle" /\ pendingUrl' = Null
  /\ UNCHANGED <<urlVars, engineVars>>

\* Revoke with the cleanup's revokeObjectURL call left out.
Revoke_Forgotten(rc, u) == rc

\* URL.revokeObjectURL(url) of the effect's cleanup closure.
Revoke(rc, u) == IF u = Null THEN rc ELSE [rc EXCEPT ![u[1]] = @ + 1]

\* ViewerUnmounts without the effect's cleanup.
ViewerUnmounts_NoCleanup ==
  /\ mounted' = FALSE
  /\ pageWidth' = 0
  /\ numPages' = Null /\ loadProgress' = Null /\ error' = Null /\ fileUrl' = Null
  /\ effDep' = Some(0) /\ effUrl' = Null /\ phase' = "idle" /\ pendingUrl' = Null
  /\ orphaned' = orphaned \cup loading /\ loading' = {} /\ given' = {}
  /\ UNCHANGED <<nextUrl, revokeCount>>

\* The instance goes away: the effect's cleanup runs, the state is dropped, and
\* the loads it had given the engine go on without it.
ViewerUnmounts ==
  /\ mounted' = FALSE
  /\ pageWidth' = 0
  /\ revokeCount' = Revoke(revokeCount, effUrl)
  /\ numPages' = Null /\ loadProgress' = Null /\ error' = Null /\ fileUrl' = Null
  /\ effDep' = Some(0) /\ effUrl' = Null /\ phase' = "idle" /\ pendingUrl' = Null
  /\ orphaned' = orphaned \cup loading /\ loading' = {} /\ given' = {}
  /\ UNCHANGED nextUrl

\* Home renders again with the viewer kept: the viewer renders with it.
ViewerStays ==
  /\ UNCHANGED <<mounted, stateVars, effVars, urlVars, engineVars>>
  /\ pageWidth' = IF ChildrenRendered THEN containerWidth ELSE pageWidth

\* ------------------------------------------------------ useEffect([file])
\* The cleanup of the previous run, when the file prop differs from the one the
\* effect last ran for (and on the first run, where nothing is to clean up).
EffectCleanup ==
  /\ mounted /\ phase = "idle" /\ pendingUrl = Null /\ effDep # file
  /\ revokeCount' = Revoke(revokeCount, effUrl)
  /\ effUrl' = Null
  /\ phase' = "setup"
  /\ ev' = Event("cleanup", 0, 0) /\ called' = Null
  /\ UNCHANGED fixedVars
  /\ UNCHANGED <<homeVars, currentPage, mounted, stateVars, effDep, pendingUrl,
                 nextUrl, engineVars, pageWidth>>

\* The effect's body: if (file) { url = URL.createObjectURL(file); setFileUrl(url) }.
EffectSetup ==
  /\ mounted /\ phase = "setup"
  /\ IF file # Null
       THEN /\ nextUrl' = nextUrl + 1
            /\ effUrl' = Some(nextUrl)
            /\ pendingUrl' = Some(nextUrl)
       ELSE UNCHANGED <<nextUrl, effUrl, pendingUrl>>
  /\ effDep' = file
  /\ phase' = "idle"
  /\ ev' = Event("setup", 0, 0) /\ called' = Null
  /\ UNCHANGED fixedVars
  /\ UNCHANGED <<homeVars, currentPage, mounted, stateVars, revokeCount, engineVars,
                 pageWidth>>

\* The render that applies the queued setFileUrl(url): Document gets the new file.
Rerender ==
  /\ mounted /\ phase = "idle" /\ pendingUrl # Null
  /\ fileUrl' = pendingUrl
  /\ pendingUrl' = Null
  /\ loading' = StartLoad(DocFile(TRUE, fileUrl, error), DocFile(TRUE, fileUrl', error), loading)
  /\ given' = StartLoad(DocFile(TRUE, fileUrl, error), DocFile(TRUE, fileUrl', error), given)
  /\ ev' = Event("render", 0, 0) /\ called' = Null
  /\ UNCHANGED fixedVars
  /\ UNCHANGED <<homeVars, currentPage, mounted, numPages, loadProgress, error,
                 effDep, effUrl, phase, urlVars, orphaned>>
  /\ Measured

\* ------------------------------------------------------ engine callbacks
\* onPageChange(page) under a host that does not take the page over.
onPageChange_NotMirrored(page) == currentPage' = currentPage /\ called' = Some(page)

\* onPageChange(page): the host mirrors it (page.tsx: onPageChange={setCurrentPage}).
onPageChange(page) == currentPage' = page /\ called' = Some(page)

\* LoadSuccess without its onPageChange(1).
LoadSuccess_NoPageReset(n) ==
  /\ numPages' = Some(n)
  /\ error' = Null
  /\ UNCHANGED currentPage /\ called' = Null
  /\ loadProgress' = Null

\* The state updates of onDocumentLoadSuccess({ numPages }).
LoadSuccess(n) ==
  /\ numPages' = Some(n)
  /\ error' = Null
  /\ onPageChange(1)
  /\ loadProgress' = Null

\* The engine reports success with n pages for the load of url u.
onDocumentLoadSuccess(u, n) ==
  /\ Settled
  /\ u \in loading \cup orphaned
  /\ ev' = Event("success", u, n)
  /\ UNCHANGED fixedVars
  /\ IF u \in loading
       THEN /\ LoadSuccess(n)
            /\ loading' = StartLoad(DocFile(TRUE, fileUrl, error),
                                    DocFile(TRUE, fileUrl, error'), loading \ {u})
            /\ given' = StartLoad(DocFile(TRUE, fileUrl, error),
                                  DocFile(TRUE, fileUrl, error'), given)
            /\ UNCHANGED orphaned
       ELSE \* a callback of an unmounted instance: its setState calls do nothing
            /\ onPageChange(1)
            /\ orphaned' = orphaned \ {u}
            /\ UNCHANGED <<numPages, error, loadProgress, loading, given>>
  /\ UNCHANGED <<homeVars, mounted, fileUrl, effVars, urlVars>>
  /\ Measured

WorkerMessage == <<"PDF worker failed to load. Please check your internet connection and try again.">>
CorruptMessage == <<"The PDF file appears to be corrupted or invalid.">>
\* ErrorMessage with the two tests in the other order.
ErrorMessage_CorruptFirst(m) ==
  IF Includes(m, "Invalid") \/ Includes(m, "corrupted") THEN CorruptMessage
  ELSE IF Includes(m, "Worker") \/ Includes(m, "worker") THEN WorkerMessage
  ELSE <<"Failed to load PDF file: ">> \o m

\* errorMessage of onDocumentLoadError(error), from error.message m.
ErrorMessage(m) ==
  IF Includes(m, "Worker") \/ Includes(m, "worker") THEN WorkerMessage
  ELSE IF Includes(m, "Invalid") \/ Includes(m, "corrupted") THEN CorruptMessage
  ELSE <<"Failed to load PDF file: ">> \o m

\* The state update of onDocumentLoadError(error).
LoadError(m) ==
  /\ error' = Some(ErrorMessage(m))
  /\ UNCHANGED <<numPages, loadProgress, currentPage>>
  /\ called' = Null

\* The engine reports the failure m for the load of url u.
onDocumentLoadError(u, m) ==
  /\ Settled
  /\ u \in loading \cup orphaned
  /\ ev' = Event("error", u, 0)
  /\ UNCHANGED fixedVars
  /\ IF u \in loading
       THEN /\ LoadError(m)
            /\ loading' = loading \ {u}
            /\ UNCHANGED <<given, orphaned>>
       ELSE /\ orphaned' = orphaned \ {u}
            /\ called' = Null
            /\ UNCHANGED <<numPages, error, loadProgress, currentPage, loading, given>>
  /\ UNCHANGED <<homeVars, mounted, fileUrl, effVars, urlVars>>
  /\ Measured

\* loadProgress after onDocumentLoadProgress(progress): `loaded && total` is
\* false for undefined and for 0.
ProgressAfter(lp, r) ==
  IF r = Null THEN lp
  ELSE LET loaded == r[1].loaded
           total == r[1].total
       IN IF loaded # Null /\ loaded # Some(0) /\ total # Null /\ total # Some(0)
            THEN Some(Min(100, RoundPct(loaded[1], total[1])))
            ELSE lp

\* The engine reports progress r for the load of url u.
onDocumentLoadProgress(u, r) ==
  /\ Settled
  /\ u \in loading \cup orphaned
  /\ ev' = Event("progress", u, 0)
  /\ UNCHANGED fixedVars
  /\ loadProgress' = IF u \in loading THEN ProgressAfter(loadProgress, r) ELSE loadProgress
  /\ called' = Null
  /\ UNCHANGED <<homeVars, currentPage, mounted, numPages, error, fileUrl,
                 effVars, urlVars, engineVars>>
  /\ Measured

\* ------------------------------------------------------------ navigation
\* The navigation bar is rendered: past the "Preparing PDF..." return, {numPages && ...}.
NavShown == mounted /\ fileUrl # Null /\ numPages # Null /\ numPages # Some(0)

\* What a click on Prev passes to onPageChange, or Null when the button is disabled.
PrevTarget(cur) == IF cur <= 1 THEN Null ELSE Some(Max(1, cur - 1))
\* NextTarget with neither the disabled attribute nor Math.min.
NextTarget_Unbounded(cur, n) == Some(cur + 1)
\* What a click on Next passes to onPageChange, or Null when the button is disabled.
NextTarget(cur, n) == IF cur >= n THEN Null ELSE Some(Min(n, cur + 1))

Click(op, target) ==
  /\ Settled /\ NavShown
  /\ ev' = Event(op, 0, currentPage)
  /\ UNCHANGED fixedVars
  /\ IF target = Null
       THEN currentPage' = currentPage /\ called' = Null
       ELSE onPageChange(target[1])
  /\ UNCHANGED <<homeVars, mounted, stateVars, effVars, urlVars, engineVars>>
  /\ Measured

ClickPrev == Click("prev", PrevTarget(currentPage))
ClickNext == Click("next", NextTarget(currentPage, numPages[1]))

\* --------------------------------------- the viewer under any host (Spec)
\* The host renders <PdfViewer file={f} .../> for the first time.
Mount(f) ==
  /\ ~mounted /\ Settled /\ nextUrl <= MaxUrls
  /\ file' = Some(f)
  /\ ViewerMounts
  /\ ev' = Event("mount", 0, f) /\ called' = Null
  /\ UNCHANGED fixedVars
  /\ UNCHANGED <<results, isLoading, homeError, requests, nextReq, currentPage>>

\* The host passes another file prop (a new Document, or none) to the mounted viewer.
HostSetFile(f) ==
  /\ mounted /\ Settled /\ f # file
  /\ f # Null => nextUrl <= MaxUrls
  /\ file' = f
  /\ ev' = Event("setFile", 0, 0) /\ called' = Null
  /\ UNCHANGED fixedVars
  /\ UNCHANGED <<results, isLoading, homeError, requests, nextReq, currentPage,
                 mounted, stateVars, effVars, urlVars, engineVars>>
  /\ Measured

\* The host passes currentPage = t: the only way to ask the viewer for a page.
HostSetPage(t) ==
  /\ mounted /\ Settled /\ t # currentPage
  /\ currentPage' = t
  /\ ev' = Event("setPage", 0, t) /\ called' = Null
  /\ UNCHANGED fixedVars
  /\ UNCHANGED <<homeVars, mounted, stateVars, effVars, urlVars, engineVars>>
  /\ Measured

\* The host stops rendering the viewer.
Unmount ==
  /\ mounted /\ Settled
  /\ ViewerUnmounts
  /\ ev' = Event("unmount", 0, Cardinality(given)) /\ called' = Null
  /\ UNCHANGED fixedVars
  /\ UNCHANGED <<homeVars, currentPage>>

ViewerNext ==
  \/ EffectCleanup
  \/ EffectSetup
  \/ Rerender
  \/ \E u \in Urls, n \in PageCounts : onDocumentLoadSuccess(u, n)
  \/ \E u \in Urls, m \in Messages : onDocumentLoadError(u, m)
  \/ \E u \in Urls, r \in Reports : onDocumentLoadProgress(u, r)
  \/ ClickPrev
  \/ ClickNext

Next ==
  \/ \E f \in Files : Mount(f)
  \/ \E f \in {Null} \cup {Some(g) : g \in Files} : HostSetFile(f)
  \/ \E t \in Targets : HostSetPage(t)
  \/ Unmount
  \/ ViewerNext

Spec == Init /\ [][Next]_vars

\* ------------------------------------- the viewer under Home (HostSpec)
\* Home returns the dual pane, which holds <PdfWrapper file={file} .../>, unless
\* (!file || !results); PdfWrapper renders the viewer when props.file is set.
DualPane(f, r) == f # Null /\ r # Null

\* The viewer follows Home's render: mounted exactly while the dual pane is shown.
ViewerFollows ==
  IF DualPane(file', results') /\ ~mounted THEN ViewerMounts
  ELSE IF ~DualPane(file', results') /\ mounted THEN ViewerUnmounts
  ELSE ViewerStays

\* UploadResets without setCurrentPage(1).
UploadResets_KeepsPage(f) ==
  /\ file' = Some(f)
  /\ results' = Null
  /\ homeError' = Null
  /\ UNCHANGED currentPage

\* setFile(uploadedFile); setResults(null); setError(null); setCurrentPage(1).
UploadResets(f) ==
  /\ file' = Some(f)
  /\ results' = Null
  /\ homeError' = Null
  /\ currentPage' = 1

\* handleFileUpload(uploadedFile) up to its await: UploadDropzone, and so this
\* handler, is rendered only in the upload view.
handleFileUpload(f) ==
  /\ Settled /\ ~DualPane(file, results)
  /\ nextReq <= MaxUploads
  /\ UploadResets(f)
  /\ isLoading' = TRUE
  /\ requests' = requests \cup {[id |-> nextReq, f |-> f]}
  /\ nextReq' = nextReq + 1
  /\ ViewerFollows
  /\ ev' = Event("upload", 0, f) /\ called' = Null
  /\ UNCHANGED fixedVars

\* The request q is answered with the extraction result: setResults(data), finally.
ResponseOk(q) ==
  /\ Settled /\ q \in requests
  /\ results' = Some(q.f)
  /\ isLoading' = FALSE
  /\ requests' = requests \ {q}
  /\ UNCHANGED <<file, homeError, currentPage, nextReq>>
  /\ ViewerFollows
  /\ ev' = Event("ok", 0, q.f) /\ called' = Null
  /\ UNCHANGED fixedVars

\* The ways a request fails: a non-OK response whose body has no detail, an
\* empty one or a message, and a fetch that rejects (a network error).
Failures ==
  {[kind |-> "http", status |-> 500, detail |-> d] :
     d \in {Null, Some(""), Some("Unsupported model")}}
  \cup {[kind |-> "network", message |-> "Failed to fetch"]}

\* The message of the Error the catch block receives:
\* err.detail || `Extraction failed with status ${response.status}.`, or the
\* message of the Error fetch rejected with.
FailureText(x) ==
  IF x.kind = "http"
    THEN IF x.detail # Null /\ x.detail # Some("")
           THEN <<x.detail[1]>>
           ELSE <<"Extraction failed with status ", x.status, ".">>
    ELSE <<x.message>>

\* The request q fails with x (a non-OK response or a network error): catch, finally.
ResponseFail(q, x) ==
  /\ Settled /\ q \in requests
  /\ homeError' = Some(FailureText(x))
  /\ file' = Null
  /\ isLoading' = FALSE
  /\ requests' = requests \ {q}
  /\ UNCHANGED <<results, currentPage, nextReq>>
  /\ ViewerFollows
  /\ ev' = Event("fail", 0, x) /\ called' = Null
  /\ UNCHANGED fixedVars

\* The Clear File button of the dual pane: setFile(null).
ClearFile ==
  /\ Settled /\ DualPane(file, results)
  /\ file' = Null
  /\ UNCHANGED <<results, isLoading, homeError, currentPage, requests, nextReq>>
  /\ ViewerFollows
  /\ ev' = Event("clear", 0, 0) /\ called' = Null
  /\ UNCHANGED fixedVars

HostNext ==
  \/ \E f \in Files : handleFileUpload(f)
  \/ \E q \in requests : ResponseOk(q)
  \/ \E q \in requests, x \in Failures : ResponseFail(q, x)
  \/ ClearFile
  \/ ViewerNext

HostSpec == Init /\ [][HostNext]_vars


\* --------------------------- the handlers' pure parts on their own (PureSpec)
\* A progress report may carry any numbers: loaded from 0, total from -1.
PureReports ==
  {Null} \cup {Some([loaded |-> l, total |-> t]) :
                 l \in {Null} \cup {Some(a) : a \in 0..MaxPureAmount},
                 t \in {Null} \cup {Some(a) : a \in (-1)..MaxPureAmount}}
\* A failure message is a sequence of words; the words the classification looks
\* for are words of their own, so `includes` is membership.
Words == {"worker", "Worker", "Invalid", "corrupted", "timeout"}
PureMessages == UNION {[1..k -> Words] : k \in 0..MaxWords}
PureInputs ==
  {[fn |-> "progress", lp |-> lp, report |-> r] :
     lp \in {Null, Some(0), Some(50)}, r \in PureReports}
  \cup {[fn |-> "error", m |-> m] : m \in PureMessages}

PureInit ==
  /\ InitCore
  /\ elements = SampleElements /\ containerWidth = 800
  /\ input \in PureInputs /\ output = Null

\* onDocumentLoadProgress(progress) with loadProgress = lp: the value it leaves.
ApplyProgress ==
  /\ input.fn = "progress" /\ output = Null
  /\ output' = Some(ProgressAfter(input.lp, input.report))
  /\ UNCHANGED <<homeVars, currentPage, mounted, stateVars, effVars, urlVars,
                 engineVars, ev, called, pageWidth, elements, containerWidth, input>>

\* onDocumentLoadError(error) with error.message = m: the text it passes to setError.
ApplyError ==
  /\ input.fn = "error" /\ output = Null
  /\ output' = Some(ErrorMessage(input.m))
  /\ UNCHANGED <<homeVars, currentPage, mounted, stateVars, effVars, urlVars,
                 engineVars, ev, called, pageWidth, elements, containerWidth, input>>

PureNext == ApplyProgress \/ ApplyError

PureSpec == PureInit /\ [][PureNext]_vars


\* ------------------------------------- annotations and overlays (GeomSpec)
\* const annotations = elements.filter(e => e.page === currentPage), with every
\* annotation kept.
Annotations_All == elements

\* const annotations = elements.filter(e => e.page === currentPage).
Annotations == SelectSeq(elements, LAMBDA e : e.page = currentPage)

\* A pixel length is held exactly, as a whole number of thousandths of a pixel;
\* Px(n) is n pixels.
Px(n) == n * 1000

\* el.bbox.map(c => (c * pageWidth) / 1000), with the division by 100.
Project_Hundredths(bbox, w) == [i \in 1..Len(bbox) |-> bbox[i] * w * 10]

\* el.bbox.map(c => (c * pageWidth) / 1000), in thousandths of a pixel.
Project(bbox, w) == [i \in 1..Len(bbox) |-> bbox[i] * w]

\* The <div> of one annotation: [x_min, y_min, x_max, y_max] = the projection.
OverlayOf(el, index, w) ==
  LET p == Project(el.bbox, w)
  IN [key |-> index, title |-> el.type,
      left |-> p[1], top |-> p[2], width |-> p[3] - p[1], height |-> p[4] - p[2]]

\* The overlays with the test on pageWidth left out.
Overlays_Unguarded ==
  IF ChildrenRendered
    THEN [k \in 1..Len(Annotations) |-> OverlayOf(Annotations[k], k, pageWidth)]
    ELSE <<>>

\* {pageWidth > 0 && annotations.map(...)}, inside the children of Document.
Overlays ==
  IF ChildrenRendered /\ pageWidth > 0
    THEN [k \in 1..Len(Annotations) |-> OverlayOf(Annotations[k], k, pageWidth)]
    ELSE <<>>

\* The annotations a host may pass: a title on page 1, a table on page 2 and a
\* figure on page 1 whose box is inverted, in any order and number up to
\* MaxElements; the widths the container may have.
ElementPool ==
  {[type |-> "title", bbox |-> <<100, 100, 900, 200>>, page |-> 1],
   [type |-> "table", bbox |-> <<0, 0, 1000, 1000>>, page |-> 2],
   [type |-> "figure", bbox |-> <<900, 200, 100, 100>>, page |-> 1]}
ElementSeqs == UNION {[1..k -> ElementPool] : k \in 0..MaxElements}
Widths == {0, 400, 800}

GeomInit ==
  /\ InitCore
  /\ elements \in ElementSeqs /\ containerWidth \in Widths
  /\ input = Null /\ output = Null

\* The layout gives the container another width. Nothing in the viewer listens
\* (no ResizeObserver, no resize handler): no state changes and nothing renders.
ContainerResize(w) ==
  /\ w # containerWidth
  /\ containerWidth' = w
  /\ ev' = Event("resize", 0, w) /\ called' = Null
  /\ UNCHANGED <<homeVars, currentPage, mounted, stateVars, effVars, urlVars,
                 engineVars, pageWidth, elements, input, output>>

GeomNext ==
  \/ \E f \in Files : Mount(f)
  \/ EffectCleanup
  \/ EffectSetup
  \/ Rerender
  \/ \E u \in Urls, n \in PageCounts : onDocumentLoadSuccess(u, n)
  \/ ClickPrev
  \/ ClickNext
  \/ \E t \in Targets : HostSetPage(t)
  \/ \E w \in Widths : ContainerResize(w)

GeomSpec == GeomInit /\ [][GeomNext]_vars

\* ================================================================ claims
\* The load of url u belongs to a Document the viewer no longer shows: the
\* effect has since run for another file prop.
Superseded(u) == mounted /\ u \in loading /\ Some(u) # effUrl
\* <Page pageNumber={currentPage} />
DisplayedPage == currentPage
\* clamp(t, lo, hi) as the claims use it (no function of the source).
Clamp(t, lo, hi) == Max(lo, Min(t, hi))
\* Ready(p): the page count is known, no error is shown, Document is rendered.
Ready == mounted /\ numPages # Null /\ error = Null /\ fileUrl # Null

\* C1: once a new Document is set while the previous one is loading, a progress,
\* success or error callback delivered for the previous Document's load changes
\* none of loadProgress, numPages and error and makes no onPageChange call.
C1_StaleEventsDiscarded ==
  [][(ev'.op \in {"progress", "success", "error"} /\ Superseded(ev'.url))
       => (UNCHANGED <<loadProgress, numPages, error>> /\ called' = Null)]_vars

\* C2: from the moment the file prop changes to a new Document until the render
\* that hands its url to Document, numPages, error and loadProgress are null.
C2_ResetOnNewDocument ==
  (mounted /\ file # Null /\ ev.op \in {"setFile", "cleanup", "setup", "render"})
    => (numPages = Null /\ error = Null /\ loadProgress = Null)

\* C3: once the viewer has settled on a Document (fileUrl holds the url created
\* for the file prop), also after an error, the engine was given that url: a load
\* of the new Document was started.
C3_NewDocumentLoads ==
  (mounted /\ Settled /\ file # Null /\ fileUrl = effUrl /\ fileUrl # Null)
    => fileUrl[1] \in given

\* C4: at most one object url created by the viewer is live (created and not
\* revoked) in every state, also between the effect's cleanup and its body.
C4_AtMostOneLive == Cardinality(Live) <= 1

\* The effect has run again in one instance: the state still holds the first url,
\* which is revoked, and the second is created.
C4_Witness ==
  mounted /\ fileUrl = Some(1) /\ effUrl = Some(2) /\ Live = {2} /\ revokeCount[1] = 1

\* C5: no url is revoked twice or before it is created, and once the viewer is
\* torn down every created url is revoked exactly once: releases = acquisitions.
C5_ReleasedExactlyOnce ==
  /\ \A u \in Urls : revokeCount[u] <= (IF u < nextUrl THEN 1 ELSE 0)
  /\ ~mounted => \A u \in 1..(nextUrl - 1) : revokeCount[u] = 1

\* A teardown of an instance that gave the engine two urls (a swap happened).
C5_Witness ==
  ~mounted /\ ev.op = "unmount" /\ ev.arg >= 2 /\ nextUrl >= 3

\* C6: the url Document is rendered with is never a revoked url.
C6_NoRevokedUrlInUse ==
  LET d == DocFile(mounted, fileUrl, error)
  IN d # Null => revokeCount[d[1]] = 0

\* C7, as claimed: in every state of Home and the viewer, 1 <= currentPage <=
\* numPages when numPages is known, and currentPage = 1 when it is not.
C7_PagePinnedEverywhere ==
  /\ numPages # Null => (1 <= currentPage /\ currentPage <= numPages[1])
  /\ numPages = Null => currentPage = 1

\* C7, amended: the same in every state in which a viewer is mounted.
C7_PageWithinBounds ==
  mounted => C7_PagePinnedEverywhere

\* A mounted viewer that is not on page 1 of a document of several pages, reached
\* by a second upload after the first viewer had left page 1.
C7_Witness ==
  mounted /\ numPages = Some(MaxPages) /\ currentPage = 2 /\ nextUrl >= 3

\* C8: after the host asks a Ready(p) viewer for page t, the page displayed is
\* clamp(t, 1, p).
C8_GotoClamps ==
  (Ready /\ ev.op = "setPage") => DisplayedPage = Clamp(ev.arg, 1, numPages[1])

\* C9: a click on Next at currentPage = numPages, and on Prev at currentPage = 1,
\* changes neither currentPage nor any other state and reports no other page.
C9_BoundaryNoOp ==
  [][(NavShown /\ (\/ ev'.op = "next" /\ currentPage = numPages[1]
                   \/ ev'.op = "prev" /\ currentPage = 1))
       => (/\ UNCHANGED <<currentPage, homeVars, mounted, stateVars, effVars,
                          urlVars, engineVars>>
           /\ called' \in {Null, Some(currentPage)})]_vars

\* Next has been clicked on the last page of a document of several pages.
C9_Witness ==
  NavShown /\ ev.op = "next" /\ called = Null /\ numPages = Some(MaxPages)
    /\ currentPage = MaxPages

\* C10: a success callback with n pages for the load of the active Document sets
\* numPages to n, clears error and loadProgress, and calls onPageChange(1), which
\* puts currentPage at 1.
C10_SuccessMakesReady ==
  [][(ev'.op = "success" /\ mounted /\ ev'.url \in loading /\ Some(ev'.url) = fileUrl)
       => (/\ numPages' = Some(ev'.arg)
           /\ error' = Null
           /\ loadProgress' = Null
           /\ called' = Some(1)
           /\ currentPage' = 1)]_vars

\* The active Document has just loaded with several pages: the viewer is Ready on
\* page 1.
C10_Witness ==
  mounted /\ ev.op = "success" /\ Some(ev.url) = fileUrl /\ numPages = Some(ev.arg)
    /\ ev.arg > 1 /\ called = Some(1) /\ currentPage = 1 /\ error = Null

\* The load of the Document the viewer has settled on has had its terminal event.
CurrentEnded ==
  /\ mounted /\ Settled /\ effUrl # Null /\ fileUrl = effUrl
  /\ effUrl[1] \in given /\ effUrl[1] \notin loading
\* Errored, and Ready, for the Document the viewer has settled on.
Errored == CurrentEnded /\ error # Null
ReadyCurrent == CurrentEnded /\ error = Null /\ numPages # Null

\* C11: once the viewer is Errored for its Document, a success callback delivered
\* before a new Document is set changes neither error nor numPages; once it is
\* Ready, an error callback delivered before a new Document is set leaves error.
C11_TerminalStatesStay ==
  [][/\ (Errored /\ ev'.op = "success" /\ ev'.url \in loading)
          => UNCHANGED <<error, numPages>>
     /\ (ReadyCurrent /\ ev'.op = "error" /\ ev'.url \in loading)
          => UNCHANGED error]_vars

\* C12: a progress callback delivered after the viewer's Document reached Ready
\* or Errored leaves loadProgress as it was.
C12_NoProgressAfterTerminal ==
  [][(CurrentEnded /\ ev'.op = "progress" /\ ev'.url \in loading)
       => UNCHANGED loadProgress]_vars

\* C13: a progress report with loaded and total both present and total > 0
\* (also loaded = 0) makes loadProgress min(100, round(loaded / total * 100)); any
\* other report leaves it, and what is stored lies in 0..100.
C13_ProgressRule ==
  (input # Null /\ input.fn = "progress" /\ output # Null) =>
    LET r == input.report
        out == output[1]
    IN /\ IF r # Null /\ r[1].loaded # Null /\ r[1].total # Null /\ r[1].total[1] > 0
            THEN out = Some(Min(100, RoundPct(r[1].loaded[1], r[1].total[1])))
            ELSE out = input.lp
       /\ out # Null => (0 <= out[1] /\ out[1] <= 100)

Unknown(m) == <<"Failed to load PDF file: ">> \o m

\* C14, as claimed: a message containing "worker" gives the worker text, one
\* containing "corrupted" the corrupt-document text, any other the unknown text
\* with the message in it.
C14_ClassifiedAsClaimed ==
  (input # Null /\ input.fn = "error" /\ output # Null) =>
    LET m == input.m
        out == output[1]
    IN /\ Includes(m, "worker") => out = WorkerMessage
       /\ Includes(m, "corrupted") => out = CorruptMessage
       /\ (~Includes(m, "worker") /\ ~Includes(m, "corrupted")) => out = Unknown(m)

\* C14, amended: a message containing "Worker" or "worker" gives the worker text;
\* any other message containing "Invalid" or "corrupted" gives the
\* corrupt-document text; every remaining message gives the unknown text, which
\* ends with the message unchanged.
C14_Classified ==
  (input # Null /\ input.fn = "error" /\ output # Null) =>
    LET m == input.m
        out == output[1]
        workerish == Includes(m, "Worker") \/ Includes(m, "worker")
        corruptish == Includes(m, "Invalid") \/ Includes(m, "corrupted")
    IN /\ workerish => out = WorkerMessage
       /\ (~workerish /\ corruptish) => out = CorruptMessage
       /\ (~workerish /\ ~corruptish) =>
            (out # WorkerMessage /\ out # CorruptMessage
               /\ SubSeq(out, 2, Len(out)) = m)

\* A message that names both the worker and corruption has been classified, and
\* so has one that names neither.
C14_Witness ==
  /\ input # Null /\ input.fn = "error" /\ output # Null
  /\ Includes(input.m, "worker") /\ Includes(input.m, "corrupted")
  /\ output = Some(WorkerMessage)

\* The positions of the annotations of the current page in elements, and the
\* k-th of them from the front.
OnPage == {i \in 1..Len(elements) : elements[i].page = currentPage}
Kth(k) == CHOOSE i \in OnPage : Cardinality({j \in OnPage : j <= i}) = k

\* C15: whatever the annotation sequence and the current page, the annotations
\* of the page are exactly the elements whose page is the current page, in their
\* order in elements, and the overlays drawn are those of these annotations, one
\* each and in that order.
C15_OverlaysOfCurrentPage ==
  /\ Len(Annotations) = Cardinality(OnPage)
  /\ \A k \in 1..Len(Annotations) : Annotations[k] = elements[Kth(k)]
  /\ Overlays # <<>> =>
       /\ Len(Overlays) = Cardinality(OnPage)
       /\ \A k \in 1..Len(Overlays) :
            Overlays[k] = OverlayOf(elements[Kth(k)], k, pageWidth)

\* Overlays are drawn for a page that has one of two annotations, the other
\* being of another page and first in the sequence.
C15_Witness ==
  /\ Len(elements) = 2 /\ elements[1].page # currentPage
  /\ elements[2].page = currentPage
  /\ Len(Overlays) = 1 /\ Overlays[1].title = elements[2].type

\* C16: for every annotation drawn at width w > 0, 1000 times each projected
\* component is component * w; left and top are the projected xMin and yMin,
\* width and height the differences of the projected components; the box
\* [100,100,900,200] at w = 800 is drawn at left 80, top 80, 640 wide and 80
\* high, its projection being [80,80,720,160]; and the projections at two widths
\* w1, w2 are in ratio w1 : w2.
C16_Projection ==
  \A k \in 1..Len(Overlays) :
    LET b == Annotations[k].bbox
        o == Overlays[k]
        w == pageWidth
    IN /\ o.left = b[1] * w /\ o.top = b[2] * w
       /\ o.left + o.width = b[3] * w /\ o.top + o.height = b[4] * w
       /\ (b = <<100, 100, 900, 200>> /\ w = 800) =>
            /\ Project(b, w) = <<Px(80), Px(80), Px(720), Px(160)>>
            /\ o.left = Px(80) /\ o.top = Px(80)
            /\ o.width = Px(640) /\ o.height = Px(80)
       /\ \A w2 \in Widths \ {0} : \A i \in 1..4 :
            Project(b, w)[i] * w2 = Project(b, w2)[i] * w

\* The title box is drawn in a page 800 pixels wide.
C16_Witness ==
  \E k \in 1..Len(Overlays) :
    /\ Annotations[k].bbox = <<100, 100, 900, 200>> /\ pageWidth = 800
    /\ Overlays[k].width = Px(640)

\* C17: overlays are drawn only in states where the measured width is positive;
\* while it is zero (not yet measured, or measured as zero) none is drawn.
C17_NoOverlayAtZeroWidth ==
  /\ Overlays # <<>> => pageWidth > 0
  /\ pageWidth = 0 => Overlays = <<>>

\* The page is shown and has annotations, the width measured is zero, and no
\* overlay is drawn.
C17_Witness ==
  /\ ChildrenRendered /\ numPages # Null /\ ev.op = "success"
  /\ Annotations # <<>> /\ pageWidth = 0 /\ Overlays = <<>>

\* C18: no overlay is drawn with a negative width or height.
C18_NoNegativeSize ==
  \A k \in 1..Len(Overlays) : Overlays[k].width >= 0 /\ Overlays[k].height >= 0

\* The viewer is at rest: its children are drawn, no effect, queued update or
\* load is outstanding, so that only the host or the user causes its next render.
AtRest == ChildrenRendered /\ Settled /\ loading = {}

\* C19: at rest the measured width is the container's width, whether the width
\* was last changed by the mount, by a resize of the container or by a page swap.
C19_WidthFollowsContainer == AtRest => pageWidth = containerWidth

\* C20: under Home, while a viewer stays mounted the page it displays (the
\* currentPage prop) changes only in a step that calls onPageChange with the new
\* page, from load success, Prev or Next; and every onPageChange(page) is
\* mirrored back, so the page displayed is the host's currentPage.
C20_PageControlled ==
  [][/\ (mounted /\ mounted' /\ DisplayedPage' # DisplayedPage) =>
          /\ called' = Some(DisplayedPage')
          /\ ev'.op \in {"success", "prev", "next"}
     /\ called' # Null => (currentPage' = called'[1] /\ DisplayedPage' = currentPage')]_vars

\* Next has been clicked on page 1 of a longer document and the host shows page 2.
C20_Witness ==
  /\ mounted /\ ev.op = "next" /\ ev.arg = 1
  /\ called = Some(2) /\ currentPage = 2 /\ DisplayedPage = 2

\* The Document shown is being loaded.
Loading == mounted /\ fileUrl # Null /\ fileUrl[1] \in loading

\* C21: the load state is one variant: an error message is never set together
\* with a known page count or a displayed progress percentage, and a progress
\* percentage is displayed only while the Document is Loading.
C21_OneVariant ==
  mounted =>
    /\ error # Null => (numPages = Null /\ loadProgress = Null)
    /\ loadProgress # Null => Loading

\* C22: whenever Home shows the dual pane, the results it shows were returned by
\* the request made for the file it holds.
C22_ResultsOfActiveFile ==
  DualPane(file, results) => results[1] = file[1]

\* C23: isLoading is true exactly while an extraction request is in flight.
C23_LoadingWhileInFlight ==
  isLoading = (requests # {})

\* C24: when a request fails and no other request is in flight, Home ends with
\* no file, no results, isLoading false and the error set to the failure's
\* detail message, or to the status text when the response has none; the upload
\* view is shown and no viewer is mounted.
C24_FailureShown ==
  [][(ev'.op = "fail" /\ requests' = {}) =>
       LET x == ev'.arg
       IN /\ file' = Null /\ results' = Null /\ isLoading' = FALSE
          /\ homeError' # Null
          /\ (x.kind = "http" /\ x.detail = Some("Unsupported model")) =>
               homeError'[1] = <<"Unsupported model">>
          /\ (x.kind = "http" /\ x.detail \in {Null, Some("")}) =>
               homeError'[1] = <<"Extraction failed with status ", 500, ".">>
          /\ x.kind = "network" => homeError'[1] = <<"Failed to fetch">>
          /\ ~DualPane(file', results') /\ ~mounted']_vars

=============================================================================
